---- MODULE Spec2Model ----
(***************************************************************************)
(* Model of the simple trading journal (src/app.py, src/pnllogic.py).      *)
(*                                                                         *)
(* Conventions.                                                            *)
(*  - Prices and P&L are integers counted in cents; the arithmetic of the  *)
(*    code (differences, products with quantity and multiplier) is exact   *)
(*    on them.  Binary floating point rounding is not modelled.            *)
(*  - Text is a sequence of tokens: a symbol is a sequence of characters,  *)
(*    a strategy label or a broker description is a sequence of words, so  *)
(*    that str.upper, str.strip and the `in` substring test are computed.  *)
(*  - A raw field of a candidate (a dict value, a CSV cell) is a tagged     *)
(*    value [t, v]: t = "num" with the number v, t = "text" for text that  *)
(*    float()/int() cannot parse, t = "none" for an absent key / NaN cell, *)
(*    t = "int" for a number written without a decimal point (a Python    *)
(*    int, a cell pandas reads as int64), t = "alt" for a date written    *)
(*    in another format than year-month-day (01/02/2024).                  *)
(***************************************************************************)
EXTENDS Integers, Sequences, FiniteSets, TLC

VARIABLES
    file,       \* data/trades.csv: the persisted sequence of trades
    cache,      \* st.cache_data entry of load_trades: [valid, value]
    last,       \* outcome of the last operation on the store
    probe       \* arguments and results of the pure functions under check

vars == <<file, cache, last, probe>>

----------------------------------------------------------------------------
(* Raw values *)

Num(n)  == [t |-> "num",  v |-> n]
Whole(n) == [t |-> "int", v |-> n]
Text    == [t |-> "text", v |-> 0]
Absent  == [t |-> "none", v |-> 0]

Slashed(n) == [t |-> "alt", v |-> n]

IsNum(x) == x.t \in {"num", "int"}

Abs(n) == IF n < 0 THEN -n ELSE n

\* `w in s` for a label or description s held as a sequence of words
Contains(s, w) == \E i \in DOMAIN s : s[i] = w

\* the marker of a dict key that is not there (dict.get gives None)
Missing == <<"<none>">>

\* Python truthiness of a text field read with dict.get
Falsy(s) == s = Missing \/ s = <<>>

----------------------------------------------------------------------------
(* Strategy labels *)

LongStock      == <<"Long", "Stock">>
ShortStock     == <<"Short", "Stock">>
LongCall       == <<"Long", "Call">>
ShortCall      == <<"Short", "Call">>
LongPut        == <<"Long", "Put">>
ShortPut       == <<"Short", "Put">>
CoveredCall    == <<"Covered", "Call">>
CashSecuredPut == <<"Cash", "Secured", "Put">>
Other          == <<"Other">>

STRATEGY_OPTIONS ==
    << LongStock, ShortStock, LongCall, ShortCall, LongPut, ShortPut,
       CoveredCall, CashSecuredPut, Other >>

StrategySet == { STRATEGY_OPTIONS[i] : i \in DOMAIN STRATEGY_OPTIONS }

\* the labels calculate_pnl treats as options (its literal list)
PnlOptionList ==
    { CashSecuredPut, CoveredCall, LongPut, LongCall, ShortPut, ShortCall }

\* the selling / buying option strategies of the specification
SellingOptions == { ShortCall, ShortPut, CashSecuredPut, CoveredCall }
BuyingOptions  == { LongCall, LongPut }

----------------------------------------------------------------------------
(* app.py: calculate_pnl *)

\* calculate_pnl with the sign of the option branch swapped
calculate_pnl_swapped(entry, exit, quantity, strategy) ==
    IF exit = 0 THEN 0
    ELSE IF strategy \in PnlOptionList
         THEN (exit - entry) * Abs(quantity) * 100
         ELSE (exit - entry) * quantity * 1

\* calculate_pnl without the open-trade guard
calculate_pnl_noguard(entry, exit, quantity, strategy) ==
    IF strategy \in PnlOptionList
    THEN (entry - exit) * Abs(quantity) * 100
    ELSE (exit - entry) * quantity * 1

\* calculate_pnl taking the absolute quantity in the stock branch too
calculate_pnl_absqty(entry, exit, quantity, strategy) ==
    IF exit = 0 THEN 0
    ELSE IF strategy \in PnlOptionList
         THEN (entry - exit) * Abs(quantity) * 100
         ELSE (exit - entry) * Abs(quantity) * 1

calculate_pnl(entry, exit, quantity, strategy) ==
    IF exit = 0 THEN 0
    ELSE IF strategy \in PnlOptionList
         THEN (entry - exit) * Abs(quantity) * 100
         ELSE (exit - entry) * quantity * 1

----------------------------------------------------------------------------
(* pnllogic.py: strategy classifier and calculate_pnl_row *)

NaN == Absent

_infer_instrument_from_strategy(strategy) ==
    IF Contains(strategy, "Call") \/ Contains(strategy, "Put") THEN "Option"
    ELSE IF strategy \in {CoveredCall, CashSecuredPut} THEN "Option"
    ELSE "Stock"

_infer_option_type(strategy) ==
    IF Contains(strategy, "Call") THEN "Call"
    ELSE IF Contains(strategy, "Put") THEN "Put"
    ELSE "None"

_direction_from_strategy(strategy) ==
    IF strategy \in {LongStock, LongCall, LongPut} THEN 1
    ELSE IF strategy \in {ShortStock, ShortCall, ShortPut, CashSecuredPut} THEN -1
    ELSE IF strategy = CoveredCall THEN -1
    ELSE 1

_is_option(strategy) == _infer_instrument_from_strategy(strategy) = "Option"

\* row.contract_multiplier is a raw value: NaN or a number
_multiplier(row) ==
    IF ~IsNum(row.contract_multiplier)
    THEN (IF _is_option(row.strategy) THEN 100 ELSE 1)
    ELSE row.contract_multiplier.v

\* row: strategy, entry_price / exit_price / quantity / contract_multiplier
\* (raw values, NaN when the cell is empty), instrument_type, option_type
\* ("None" for Python's None, "NaN" for an empty cell), status
calculate_pnl_row(row) ==
    LET strategy   == row.strategy
        entry      == row.entry_price
        exitp      == row.exit_price
        qty        == IF IsNum(row.quantity) THEN Num(Abs(row.quantity.v)) ELSE NaN
        direction  == _direction_from_strategy(strategy)
        mult       == _multiplier(row)
        instrument == row.instrument_type
        opt_type   == row.option_type
    IN  IF ~IsNum(qty) \/ qty.v = 0 \/ ~IsNum(entry) THEN 0
        ELSE IF instrument = "Stock" /\ opt_type = "None"
             THEN (IF ~IsNum(exitp) THEN 0
                   ELSE direction * (exitp.v - entry.v) * qty.v)
        ELSE IF instrument = "Option"
             THEN (IF IsNum(exitp)
                   THEN direction * (exitp.v - entry.v) * mult * qty.v
                   ELSE IF row.status = "Closed"
                           /\ (IF opt_type = "None"
                               THEN _infer_option_type(strategy)
                               ELSE opt_type) = "Put"
                           /\ direction = -1
                        THEN (entry.v - 0) * mult * qty.v
                        ELSE 0)
        ELSE IF IsNum(exitp) THEN direction * (exitp.v - entry.v) * qty.v
        ELSE 0

\* the row pnllogic.load_trades builds from a trade that app.py persisted:
\* the extended columns are absent from the file, instrument_type is filled
\* from the strategy and contract_multiplier from the instrument type
PnlLogicRow(entry, exit, quantity, strategy, status) ==
    LET inst == _infer_instrument_from_strategy(strategy)
    IN  [ strategy            |-> strategy,
          entry_price         |-> Num(entry),
          exit_price          |-> Num(exit),
          quantity            |-> Num(quantity),
          contract_multiplier |-> Num(IF inst = "Option" THEN 100 ELSE 1),
          instrument_type     |-> inst,
          option_type         |-> "NaN",
          status              |-> status ]

----------------------------------------------------------------------------
(* Text of a symbol: str.upper and str.strip *)

Chars == {"a", "A", "b", "B", "n", "N", " "}

UpperChar(c) ==
    IF c = "a" THEN "A" ELSE IF c = "b" THEN "B" ELSE IF c = "n" THEN "N" ELSE c

Upper(s) == [i \in DOMAIN s |-> UpperChar(s[i])]

RECURSIVE LStrip(_)
LStrip(s) == IF s # <<>> /\ Head(s) = " " THEN LStrip(Tail(s)) ELSE s

RECURSIVE RStrip(_)
RStrip(s) ==
    IF s # <<>> /\ s[Len(s)] = " " THEN RStrip(SubSeq(s, 1, Len(s) - 1)) ELSE s

Strip(s) == RStrip(LStrip(s))

----------------------------------------------------------------------------
(* app.py: validate_trade_data *)

\* validate_trade_data without the rule on "Long" labels
validate_trade_data_nolong(trade_data) ==
    IF Falsy(trade_data.symbol) THEN "Symbol is required"
    ELSE IF Falsy(trade_data.strategy) THEN "Strategy is required"
    ELSE IF trade_data.entry_price.t = "text"
         THEN "Entry price must be a valid number"
    ELSE IF trade_data.entry_price.v <= 0
         THEN "Entry price must be positive"
    ELSE IF trade_data.quantity.t = "text"
         THEN "Quantity must be a valid integer"
    ELSE IF trade_data.quantity.v = 0
         THEN "Quantity cannot be zero"
    ELSE IF trade_data.exit_price.t = "text"
         THEN "Exit price must be a valid number"
    ELSE IF trade_data.quantity.v > 0 /\ Contains(trade_data.strategy, "Short")
         THEN "Short strategies require negative quantity"
    ELSE "ok"

\* validate_trade_data checking the quantity before the entry price
validate_trade_data_qtyfirst(trade_data) ==
    IF Falsy(trade_data.symbol) THEN "Symbol is required"
    ELSE IF Falsy(trade_data.strategy) THEN "Strategy is required"
    ELSE IF trade_data.quantity.t = "text"
         THEN "Quantity must be a valid integer"
    ELSE IF trade_data.quantity.v = 0
         THEN "Quantity cannot be zero"
    ELSE IF trade_data.entry_price.t = "text"
         THEN "Entry price must be a valid number"
    ELSE IF trade_data.entry_price.v <= 0
         THEN "Entry price must be positive"
    ELSE IF trade_data.exit_price.t = "text"
         THEN "Exit price must be a valid number"
    ELSE IF trade_data.quantity.v > 0 /\ Contains(trade_data.strategy, "Short")
         THEN "Short strategies require negative quantity"
    ELSE IF trade_data.quantity.v < 0 /\ Contains(trade_data.strategy, "Long")
         THEN "Long strategies require positive quantity"
    ELSE "ok"

\* trade_data: symbol, strategy (text, Missing when the key is absent),
\* entry_price, quantity, exit_price (raw values).  The result is "ok" or
\* the message of the TradeValidationError raised.
validate_trade_data(trade_data) ==
    IF Falsy(trade_data.symbol) THEN "Symbol is required"
    ELSE IF Falsy(trade_data.strategy) THEN "Strategy is required"
    ELSE IF trade_data.entry_price.t = "text"
         THEN "Entry price must be a valid number"
    ELSE IF trade_data.entry_price.v <= 0    \* an absent key reads as 0
         THEN "Entry price must be positive"
    ELSE IF trade_data.quantity.t = "text"
         THEN "Quantity must be a valid integer"
    ELSE IF trade_data.quantity.v = 0        \* an absent key reads as 0
         THEN "Quantity cannot be zero"
    ELSE IF trade_data.exit_price.t = "text"
         THEN "Exit price must be a valid number"
    ELSE IF trade_data.quantity.v > 0 /\ Contains(trade_data.strategy, "Short")
         THEN "Short strategies require negative quantity"
    ELSE IF trade_data.quantity.v < 0 /\ Contains(trade_data.strategy, "Long")
         THEN "Long strategies require positive quantity"
    ELSE "ok"

----------------------------------------------------------------------------
(* The store before any operation *)

NoCache == [valid |-> FALSE, value |-> <<>>]
NoOp    == [op |-> "none", ok |-> TRUE]
NoProbe == [fn |-> "none"]

StoreInit == file = <<>> /\ cache = NoCache /\ last = NoOp

----------------------------------------------------------------------------
(* Bounds of the store model *)

MaxTrades == 2      \* trades.csv holds at most this many trades
MaxRows   == 2      \* an imported file has at most this many rows

----------------------------------------------------------------------------
(* app.py: Trade, load_trades, save_trades *)

\* a row of the trade table: the nine fields of Trade, and the dtype of the
\* entry_price column of the frame the row is in ("float64", or "int64"
\* when every cell of the column is written without a decimal point)
Trade(date, symbol, strategy, entry, exit, quantity, pnl, notes, status) ==
    [ date |-> date, symbol |-> symbol, strategy |-> strategy,
      entry_price |-> entry, exit_price |-> exit, quantity |-> quantity,
      pnl |-> pnl, notes |-> notes, status |-> status,
      entry_dtype |-> "float64" ]

\* the dtype pandas gives a column holding the raw number x
DtypeOf(x) == IF x.t = "int" THEN "int64" ELSE "float64"

\* the dtype of the entry_price column of a frame: int64 when all its
\* parts are int64, float64 otherwise
ColumnDtype(df) ==
    IF \A i \in DOMAIN df : df[i].entry_dtype = "int64"
    THEN "int64" ELSE "float64"

\* a frame built from rows: one dtype for the whole column
AsFrame(rows) ==
    [i \in DOMAIN rows |-> [rows[i] EXCEPT !.entry_dtype = ColumnDtype(rows)]]

\* pd.concat([a, b], ignore_index=True)
concat(a, b) == AsFrame(a \o b)

\* the trades of a frame whatever the dtype of its columns
Values(df) == [i \in DOMAIN df |-> [df[i] EXCEPT !.entry_dtype = "float64"]]

\* load_trades() under @st.cache_data(ttl=300): while the entry is alive the
\* cached collection is returned and the file is not read; on a miss the
\* file is read (an absent file reads as the empty collection)
load_trades == IF cache.valid THEN cache.value ELSE file

\* the cache entry once load_trades has returned
cache_after_load == [valid |-> TRUE, value |-> load_trades]

\* the ttl of the cache entry runs out (nothing in app.py clears the cache)
ExpireCache ==
    /\ cache.valid
    /\ cache' = NoCache
    /\ UNCHANGED <<file, last, probe>>

----------------------------------------------------------------------------
(* app.py: add_trade *)

\* the record add_trade appends, keeping the pnl the caller supplied
AddedTrade_keepPnl(td) ==
    [ Trade(td.date, td.symbol, td.strategy,
            td.entry_price.v, td.exit_price.v, td.quantity.v,
            td.pnl,
            td.notes,
            IF td.exit_price.v = 0 THEN "Open" ELSE "Closed")
      EXCEPT !.entry_dtype = DtypeOf(td.entry_price) ]

\* the record add_trade appends for a validated trade_data
AddedTrade(td) ==
    [ Trade(td.date, td.symbol, td.strategy,
            td.entry_price.v, td.exit_price.v, td.quantity.v,
            calculate_pnl(td.entry_price.v, td.exit_price.v, td.quantity.v,
                          td.strategy),
            td.notes,
            IF td.exit_price.v = 0 THEN "Open" ELSE "Closed")
      EXCEPT !.entry_dtype = DtypeOf(td.entry_price) ]

\* add_trade(trade_data): validation, then load, derive, append, save.
\* trade_data['exit_price'] of a dict without that key raises KeyError after
\* load_trades has run.
AddTrade(td) ==
    LET v == validate_trade_data(td) IN
    IF v # "ok"
    THEN /\ last' = [op |-> "add", ok |-> FALSE, error |-> v]
         /\ UNCHANGED <<file, cache, probe>>
    ELSE IF ~IsNum(td.exit_price)
    THEN /\ cache' = cache_after_load
         /\ last' = [op |-> "add", ok |-> FALSE, error |-> "KeyError"]
         /\ UNCHANGED <<file, probe>>
    ELSE /\ Len(load_trades) < MaxTrades
         /\ file' = concat(load_trades, <<AddedTrade(td)>>)
         /\ cache' = cache_after_load
         /\ last' = [op |-> "add", ok |-> TRUE, trade |-> AddedTrade(td),
                     pnl_in |-> td.pnl, before |-> file]
         /\ UNCHANGED probe

----------------------------------------------------------------------------
(* app.py: validate_import_data, import_trades (column-mapped path) *)

\* a mapped row: date, entry_price, exit_price, quantity are raw cells;
\* symbol is text (<<>> for an empty cell), strategy a label
RowErrors(row) ==
    (IF row.date.t = "text" THEN {"Invalid date format"} ELSE {})
    \cup (IF Strip(row.symbol) = <<>> THEN {"Missing symbol"} ELSE {})
    \cup (IF row.strategy \notin StrategySet THEN {"Invalid strategy"} ELSE {})
    \cup (IF ~IsNum(row.entry_price) THEN {"Invalid entry price"}
          ELSE IF row.entry_price.v <= 0 THEN {"Entry price must be positive"}
          ELSE {})
    \cup (IF ~IsNum(row.quantity) THEN {"Invalid quantity"}
          ELSE IF row.quantity.v = 0 THEN {"Quantity cannot be zero"}
          ELSE {})
    \cup (IF row.exit_price.t = "text" THEN {"Invalid exit price"} ELSE {})

\* the errors found, each with the index of its row
validate_import_data(rows) ==
    UNION { { <<i, e>> : e \in RowErrors(rows[i]) } : i \in DOMAIN rows }

\* import_trades: the clean-and-normalize block on a validated row
NormalizedRow(row) ==
    LET exit == IF IsNum(row.exit_price) THEN row.exit_price.v ELSE 0
    IN  [ Trade(row.date.v, Strip(Upper(row.symbol)), row.strategy,
                row.entry_price.v, exit, row.quantity.v,
                calculate_pnl(row.entry_price.v, exit, row.quantity.v,
                              row.strategy),
                row.notes,
                IF exit > 0 THEN "Closed" ELSE "Open")
          EXCEPT !.entry_dtype = DtypeOf(row.entry_price) ]

\* str(v) of a number of a column of the given dtype (v counts cents): the
\* digits before the point and, for a float, those after it; 150 of an
\* int64 column is "150", 150.0 of a float64 column "150.0"
FormatNumber(v, dtype) ==
    IF dtype = "int64" THEN <<v \div 100>> ELSE <<v \div 100, v % 100>>

\* the duplicate key f"{date}_{symbol}_{entry_price}"
duplicate_key(t) ==
    <<t.date, t.symbol, FormatNumber(t.entry_price, t.entry_dtype)>>

RECURSIVE SelectSeq2(_, _)
\* the subsequence of s whose duplicate key is not in keys
SelectSeq2(s, keys) ==
    IF s = <<>> THEN <<>>
    ELSE IF duplicate_key(Head(s)) \in keys
         THEN SelectSeq2(Tail(s), keys)
         ELSE <<Head(s)>> \o SelectSeq2(Tail(s), keys)

RECURSIVE RejectSeq2(_, _)
\* the subsequence of s whose duplicate key is in keys
RejectSeq2(s, keys) ==
    IF s = <<>> THEN <<>>
    ELSE IF duplicate_key(Head(s)) \in keys
         THEN <<Head(s)>> \o RejectSeq2(Tail(s), keys)
         ELSE RejectSeq2(Tail(s), keys)

\* duplicate filter shared by both import paths; the result is
\* <<survivors of mapped, duplicate_count, rows of mapped filtered out>>
DropDuplicates(existing, mapped, skip_duplicates) ==
    IF skip_duplicates /\ existing # <<>>
    THEN LET keys == { duplicate_key(existing[i]) : i \in DOMAIN existing }
             kept == SelectSeq2(mapped, keys)
         IN  <<kept, Len(mapped) - Len(kept), RejectSeq2(mapped, keys)>>
    ELSE <<mapped, 0, <<>> >>

\* the tail of both import paths: load, drop duplicates, concatenate, save
\* (a bound variable over a singleton holds a value computed once)
\* the result names no row: on success it holds the three counts only
MergeAndSave(outcome, skip_duplicates, path) ==
    \E existing \in { load_trades } :
    \E dd \in { DropDuplicates(existing, outcome.mapped, skip_duplicates) } :
        /\ Len(existing) + Len(dd[1]) <= MaxTrades
        /\ \E combined \in { IF existing = <<>> THEN dd[1]
                              ELSE concat(existing, dd[1]) } :
               /\ file' = combined
               /\ cache' = cache_after_load
               /\ last' = [op |-> "import", ok |-> TRUE, path |-> path,
                           error |-> "",
                           skip_duplicates |-> skip_duplicates,
                           dropped |-> dd[3],
                           n_rows |-> outcome.n_rows,
                           n_valid |-> outcome.n_valid,
                           reported |-> outcome.reported,
                           imported_count |-> Len(dd[1]),
                           duplicate_count |-> dd[2],
                           total_count |-> Len(combined)]

\* a failure path that writes the collection it loaded back to the file
ImportFailed_saves(outcome, path) ==
    /\ last' = [op |-> "import", ok |-> FALSE, path |-> path,
                error |-> outcome.error,
                n_rows |-> outcome.n_rows, n_valid |-> outcome.n_valid,
                reported |-> outcome.reported,
                imported_count |-> 0, duplicate_count |-> 0]
    /\ file' = load_trades
    /\ cache' = cache_after_load

ImportFailed(outcome, path) ==
    /\ last' = [op |-> "import", ok |-> FALSE, path |-> path,
                error |-> outcome.error,
                n_rows |-> outcome.n_rows, n_valid |-> outcome.n_valid,
                reported |-> outcome.reported,
                imported_count |-> 0, duplicate_count |-> 0]
    /\ UNCHANGED <<file, cache>>

\* the first half of an import: ok, error and the normalized candidates,
\* with the number of rows of the file (n_rows), of rows that pass
\* validate_import_data (n_valid) and of rows the result names with a
\* reason (reported)
Failure(error, n_rows, n_valid, reported) ==
    [ok |-> FALSE, error |-> error, mapped |-> <<>>,
     n_rows |-> n_rows, n_valid |-> n_valid, reported |-> reported]

Success(mapped, n_rows) ==
    [ok |-> TRUE, error |-> "", mapped |-> mapped,
     n_rows |-> n_rows, n_valid |-> Len(mapped), reported |-> 0]

\* the rows validate_import_data has an error for
ErrorRows(rows) == { i \in DOMAIN rows : RowErrors(rows[i]) # {} }

\* pd.to_datetime on the date column raises: pandas 2 takes the format of
\* the first date for the whole column and refuses a date in another
\* format; pandas 1 parses each date by itself
MixedDates(rows, pandas2) ==
    /\ pandas2
    /\ \E i \in DOMAIN rows : (rows[i].date.t = "alt") # (rows[1].date.t = "alt")

\* import_trades up to the normalized candidates (read, map, validate,
\* normalize), on a file without the broker's columns
GenericOutcome(readable, rows, pandas2) ==
    IF ~readable THEN Failure("Error reading CSV file", 0, 0, 0)
    ELSE IF validate_import_data(rows) # {}
    THEN Failure("Validation errors found", Len(rows),
                 Len(rows) - Cardinality(ErrorRows(rows)),
                 Cardinality(ErrorRows(rows)))
    ELSE IF MixedDates(rows, pandas2)
    THEN Failure("Error processing data", Len(rows), Len(rows), 0)
    ELSE Success(AsFrame([i \in DOMAIN rows |-> NormalizedRow(rows[i])]),
                 Len(rows))

\* import_trades from the outcome of its first half on: a failure is
\* returned as it is, the candidates are merged into the store
RunImport(outcome, skip_duplicates, path) ==
    IF ~outcome.ok
    THEN ImportFailed(outcome, path)
    ELSE MergeAndSave(outcome, skip_duplicates, path)

ImportTrades(outcome, skip_duplicates, path) ==
    /\ RunImport(outcome, skip_duplicates, path)
    /\ UNCHANGED probe

----------------------------------------------------------------------------
(* app.py: parse_tastytrade_row *)

Digits == {"0", "1", "2", "3", "4", "5", "6", "7", "8", "9"}

DigitVal(c) ==
    CASE c = "0" -> 0 [] c = "1" -> 1 [] c = "2" -> 2 [] c = "3" -> 3
      [] c = "4" -> 4 [] c = "5" -> 5 [] c = "6" -> 6 [] c = "7" -> 7
      [] c = "8" -> 8 [] c = "9" -> 9

RECURSIVE FilterChars(_, _)
\* ''.join(c for c in s if c in keep)
FilterChars(s, keep) ==
    IF s = <<>> THEN <<>>
    ELSE IF Head(s) \in keep THEN <<Head(s)>> \o FilterChars(Tail(s), keep)
    ELSE FilterChars(Tail(s), keep)

RECURSIVE NatOf(_)
\* the number a sequence of digits writes (0 for no digit)
NatOf(ds) ==
    IF ds = <<>> THEN 0
    ELSE NatOf(SubSeq(ds, 1, Len(ds) - 1)) * 10 + DigitVal(ds[Len(ds)])

\* float(s) of a text of digits and points, in cents (prices carry at most
\* two decimals); ok = FALSE where float raises ValueError
ParseFloat(s) ==
    LET dots == { i \in DOMAIN s : s[i] = "." }
    IN  IF Cardinality(dots) > 1 \/ Cardinality(dots) = Len(s)
        THEN [ok |-> FALSE, v |-> 0]
        ELSE IF dots = {}
        THEN [ok |-> TRUE, v |-> NatOf(s) * 100]
        ELSE LET d    == CHOOSE i \in dots : TRUE
                 frac == SubSeq(s, d + 1, Len(s))
             IN  [ok |-> TRUE,
                  v  |-> NatOf(SubSeq(s, 1, d - 1)) * 100
                         + (IF Len(frac) = 0 THEN 0
                            ELSE IF Len(frac) = 1 THEN DigitVal(frac[1]) * 10
                            ELSE DigitVal(frac[1]) * 10 + DigitVal(frac[2]))]

\* the integer tokens a description can hold, as re.search(r'([+-]?\d+)')
\* and int() read them
IntTokens == {"-2", "-1", "0", "1", "+1", "2", "15"}

IntOf(w) ==
    CASE w = "-2" -> -2 [] w = "-1" -> -1 [] w = "0" -> 0 [] w = "1" -> 1
      [] w = "+1" -> 1 [] w = "2" -> 2 [] w = "15" -> 15

\* the first integer of the description, 1 when it has none
DescriptionQuantity(description) ==
    LET hits == { i \in DOMAIN description : description[i] \in IntTokens }
    IN  IF hits = {} THEN 1
        ELSE IntOf(description[CHOOSE i \in hits : \A k \in hits : i <= k])

StartsWith(s, c) == s # <<>> /\ s[1] = c

EndsWith(s, suffix) ==
    /\ Len(s) >= Len(suffix)
    /\ SubSeq(s, Len(s) - Len(suffix) + 1, Len(s)) = suffix

LongFutures  == <<"Long", "Futures">>
ShortFutures == <<"Short", "Futures">>

\* the strategy lookup with sell-to-close read as a buying action
BrokerStrategy_stcbuys(description, symbol, quantity) ==
    IF Contains(description, "Put")
    THEN (IF Contains(description, "STO") THEN CashSecuredPut
          ELSE IF Contains(description, "BTC") THEN LongPut
          ELSE IF Contains(description, "BTO") THEN LongPut
          ELSE IF Contains(description, "STC") THEN LongPut
          ELSE IF quantity > 0 THEN LongPut ELSE CashSecuredPut)
    ELSE IF Contains(description, "Call")
    THEN (IF Contains(description, "STO") THEN CoveredCall
          ELSE IF Contains(description, "BTC") THEN LongCall
          ELSE IF Contains(description, "BTO") THEN LongCall
          ELSE IF Contains(description, "STC") THEN LongCall
          ELSE IF quantity > 0 THEN LongCall ELSE CoveredCall)
    ELSE IF Contains(description, "Stock") \/ Contains(description, "Equity")
    THEN (IF quantity > 0 THEN LongStock ELSE ShortStock)
    ELSE IF StartsWith(symbol, "/")
            \/ EndsWith(symbol, <<"U", "5">>) \/ EndsWith(symbol, <<"H", "5">>)
            \/ EndsWith(symbol, <<"Z", "5">>)
    THEN (IF quantity > 0 THEN LongFutures ELSE ShortFutures)
    ELSE (IF quantity > 0 THEN LongStock ELSE ShortStock)

\* the strategy lookup of parse_tastytrade_row
BrokerStrategy(description, symbol, quantity) ==
    IF Contains(description, "Put")
    THEN (IF Contains(description, "STO") THEN CashSecuredPut
          ELSE IF Contains(description, "BTC") THEN LongPut
          ELSE IF Contains(description, "BTO") THEN LongPut
          ELSE IF Contains(description, "STC") THEN CashSecuredPut
          ELSE IF quantity > 0 THEN LongPut ELSE CashSecuredPut)
    ELSE IF Contains(description, "Call")
    THEN (IF Contains(description, "STO") THEN CoveredCall
          ELSE IF Contains(description, "BTC") THEN LongCall
          ELSE IF Contains(description, "BTO") THEN LongCall
          ELSE IF Contains(description, "STC") THEN CoveredCall
          ELSE IF quantity > 0 THEN LongCall ELSE CoveredCall)
    ELSE IF Contains(description, "Stock") \/ Contains(description, "Equity")
    THEN (IF quantity > 0 THEN LongStock ELSE ShortStock)
    ELSE IF StartsWith(symbol, "/")
            \/ EndsWith(symbol, <<"U", "5">>) \/ EndsWith(symbol, <<"H", "5">>)
            \/ EndsWith(symbol, <<"Z", "5">>)
    THEN (IF quantity > 0 THEN LongFutures ELSE ShortFutures)
    ELSE (IF quantity > 0 THEN LongStock ELSE ShortStock)

NoTrade == [none |-> TRUE]

\* an empty cell of the CSV file, which pandas reads as NaN
EmptyCell == <<"<nan>">>

\* str(cell): the text of a cell, "nan" for NaN
Str(cell) == IF cell = EmptyCell THEN <<"n", "a", "n">> ELSE cell

\* str(cell) of a Description cell, held as words: "nan" for NaN
StrWords(cell) == IF cell = EmptyCell THEN <<"nan">> ELSE cell

\* parse_tastytrade_row taking sell-to-close alone as a closing action
parse_tastytrade_row_stconly(row, today) ==
    LET symbol == Strip(Upper(Str(row.Symbol)))
        clean  == IF row.Price = <<>> THEN <<>>
                  ELSE FilterChars(row.Price[1], Digits \cup {"."})
        price  == ParseFloat(clean)
        description == StrWords(row.Description)
        quantity == DescriptionQuantity(description)
        closing  == Contains(description, "STC")
    IN  IF symbol = <<>> THEN NoTrade
        ELSE IF row.Price = <<>> \/ clean = <<>> THEN NoTrade
        ELSE IF ~price.ok THEN NoTrade
        ELSE [ none |-> FALSE,
               trade |-> Trade(today, symbol,
                               BrokerStrategy(description, symbol, quantity),
                               price.v,
                               IF closing THEN price.v ELSE 0,
                               quantity,
                               0,
                               description,
                               IF closing THEN "Closed" ELSE "Open") ]

\* row: Symbol (a cell), Price (the whitespace-separated tokens of
\* str(cell), each a text), Description (a cell, its text held as words);
\* today is datetime.now()'s date
parse_tastytrade_row(row, today) ==
    LET symbol == Strip(Upper(Str(row.Symbol)))
        clean  == IF row.Price = <<>> THEN <<>>
                  ELSE FilterChars(row.Price[1], Digits \cup {"."})
        price  == ParseFloat(clean)
        description == StrWords(row.Description)
        quantity == DescriptionQuantity(description)
        closing  == Contains(description, "STC")
                    \/ Contains(description, "BTC")
    IN  IF symbol = <<>> THEN NoTrade
        ELSE IF row.Price = <<>> \/ clean = <<>> THEN NoTrade
        ELSE IF ~price.ok THEN NoTrade             \* ValueError, caught
        ELSE [ none |-> FALSE,
               trade |-> Trade(today, symbol,
                               BrokerStrategy(description, symbol, quantity),
                               price.v,
                               IF closing THEN price.v ELSE 0,
                               quantity,
                               0,
                               description,
                               IF closing THEN "Closed" ELSE "Open") ]

----------------------------------------------------------------------------
(* app.py: import_tastytrade_trades *)

RECURSIVE ParsedTrades(_, _)
\* processed_trades: the candidates of the rows the parser decoded
ParsedTrades(rows, today) ==
    IF rows = <<>> THEN <<>>
    ELSE LET r == parse_tastytrade_row(Head(rows), today)
         IN  (IF r.none THEN <<>> ELSE <<r.trade>>)
             \o ParsedTrades(Tail(rows), today)

\* the candidate with its P&L recalculated (status stays the parser's)
Recalculated(t) ==
    [t EXCEPT !.pnl = calculate_pnl(t.entry_price, t.exit_price,
                                    t.quantity, t.strategy)]

\* the cells validate_import_data reads from a candidate
AsRow(t) ==
    [ date |-> Num(t.date), symbol |-> t.symbol, strategy |-> t.strategy,
      entry_price |-> Num(t.entry_price), exit_price |-> Num(t.exit_price),
      quantity |-> Num(t.quantity), notes |-> t.notes ]

\* import_tastytrade_trades up to the validated candidates, on a file with
\* the columns Symbol, Price, Description
BrokerOutcome(readable, rows, today) ==
    IF ~readable THEN Failure("Error reading CSV file", 0, 0, 0)
    ELSE LET processed == ParsedTrades(rows, today)
             mapped    == [i \in DOMAIN processed |-> Recalculated(processed[i])]
             cells     == [i \in DOMAIN mapped |-> AsRow(mapped[i])]
         IN  IF processed = <<>>
             THEN Failure("No valid trades found in the file", Len(rows), 0, 0)
             ELSE IF validate_import_data(cells) # {}
             THEN Failure("Validation errors found", Len(rows),
                          Len(cells) - Cardinality(ErrorRows(cells)),
                          Cardinality(ErrorRows(cells)))
             ELSE Success(mapped, Len(rows))

----------------------------------------------------------------------------
(* Specification Spec: add_trade and import_trades on the store *)

RECURSIVE SeqsUpTo(_, _)
\* the sequences over S of length at most n
SeqsUpTo(S, n) ==
    IF n = 0 THEN { <<>> }
    ELSE LET shorter == SeqsUpTo(S, n - 1)
         IN  shorter \cup { Append(q, x) : q \in shorter, x \in S }

Dates == {1}

\* the symbol as the form of main hands it over: upper-cased, not trimmed
AddInput(strategy, exit, quantity) ==
    [ date |-> 1, symbol |-> <<" ", "A">>, strategy |-> strategy,
      entry_price |-> Num(100), exit_price |-> exit, quantity |-> Num(quantity),
      pnl |-> 777, notes |-> <<>> ]

AddInputs ==
    { AddInput(LongStock, Num(150), 1),         \* closed
      AddInput(LongStock, Num(0), 1),           \* open
      AddInput(CashSecuredPut, Num(150), -1),   \* closed option, sold
      AddInput(LongStock, Num(150), -1),        \* fails validation
      AddInput(LongStock, Absent, 1) }          \* no exit_price key

GenericRow(date, strategy, entry, exit) ==
    [ date |-> date, symbol |-> <<"a", " ">>, strategy |-> strategy,
      entry_price |-> entry, exit_price |-> exit, quantity |-> Num(2),
      pnl |-> 777, notes |-> <<>> ]

GenericRows ==
    { GenericRow(Num(1), LongPut, Num(100), Num(150)),    \* closed
      GenericRow(Num(1), LongPut, Whole(100), Num(-50)),  \* entry written
                                                          \* "1", negative exit
      GenericRow(Slashed(1), LongPut, Num(100), Absent),  \* empty exit cell,
                                                          \* date 01/01/2024
      GenericRow(Text,   LongFutures, Num(100), Num(150)) } \* fails validation

BrokerRow(symbol, price, description) ==
    [ Symbol |-> symbol, Price |-> price, Description |-> description ]

Credit106 == << <<"1", ".", "0", "6">>, <<"c", "r">> >>

BrokerRows ==
    { BrokerRow(<<"b">>, Credit106, <<"-1", "15", "Put", "STO">>),
      BrokerRow(<<"b">>, Credit106, <<"1", "Call", "BTC">>),
      BrokerRow(<<"/", "b">>, Credit106, <<"2">>),
      BrokerRow(<<" ">>, << <<"c", "r">> >>, <<"Other">>) }

DoAddTrade == \E td \in AddInputs : AddTrade(td)

GenericFiles == SeqsUpTo(GenericRows, MaxRows)
BrokerFiles  == SeqsUpTo(BrokerRows, MaxRows)

\* the first half of import_trades on every readable file of the catalogue
GenericOutcomes ==
    { GenericOutcome(TRUE, rows, pandas2) :
        rows \in GenericFiles, pandas2 \in BOOLEAN }
BrokerOutcomes  ==
    { BrokerOutcome(TRUE, rows, today) : rows \in BrokerFiles, today \in Dates }

DoImportGeneric ==
    \E outcome \in GenericOutcomes, skip_duplicates \in BOOLEAN :
        ImportTrades(outcome, skip_duplicates, "generic")

DoImportBroker ==
    \E outcome \in BrokerOutcomes, skip_duplicates \in BOOLEAN :
        ImportTrades(outcome, skip_duplicates, "broker")

\* pd.read_csv raises on the uploaded file
DoImportUnreadable ==
    ImportTrades(GenericOutcome(FALSE, <<>>, TRUE), FALSE, "generic")

Init == StoreInit /\ probe = NoProbe

Next ==
    \/ DoAddTrade
    \/ DoImportGeneric
    \/ DoImportBroker
    \/ DoImportUnreadable
    \/ ExpireCache

Spec == Init /\ [][Next]_vars

----------------------------------------------------------------------------
(* app.py: filter_trades and the trade-history editor of main *)

\* filter_config as create_filter_sidebar builds it: the date range and the
\* P&L range are always set; an empty selection switches its filter off
\* (search_text is left empty)
Shown(t, fc) ==
    /\ t.date >= fc.start_date /\ t.date <= fc.end_date
    /\ (fc.symbols # {} => t.symbol \in fc.symbols)
    /\ (fc.strategies # {} => t.strategy \in fc.strategies)
    /\ (fc.statuses # {} => t.status \in fc.statuses)
    /\ t.pnl >= fc.min_pnl /\ t.pnl <= fc.max_pnl

filter_trades(trades_df, fc) ==
    IF trades_df = <<>> THEN trades_df
    ELSE SelectSeq(trades_df, LAMBDA t : Shown(t, fc))

\* a page run of main: load (cached), filter, show the editor; the user
\* changes the exit_price cell of row i to v, and the edited table, which
\* differs from the filtered one, is saved as the collection
EditSave(fc, i, v) ==
    \E filtered \in { filter_trades(load_trades, fc) } :
        /\ i \in DOMAIN filtered
        /\ filtered[i].exit_price # v
        /\ file' = [filtered EXCEPT ![i].exit_price = v]
        /\ cache' = cache_after_load
        /\ last' = [op |-> "edit", ok |-> TRUE, app |-> "app", index |-> i,
                    was_open |-> filtered[i].exit_price = 0, exit |-> v,
                    filter_config |-> fc]
        /\ UNCHANGED probe

----------------------------------------------------------------------------
(* pnllogic.py: recalc_pnl and the Save Changes button *)

\* calculate_pnl_row on a trade of the shared file, as load_trades reads it
RowPnl(t) ==
    calculate_pnl_row(PnlLogicRow(t.entry_price, t.exit_price, t.quantity,
                                  t.strategy, t.status))

recalc_pnl(df) == [j \in DOMAIN df |-> [df[j] EXCEPT !.pnl = RowPnl(df[j])]]

\* the composite key of Save Changes
EditKey(t) == <<t.date, t.symbol, t.strategy, t.entry_price>>

\* Save Changes after the exit_price cell of row i was set to v (no filter
\* active).  edited.set_index("__k__").to_dict(orient="index") raises on a
\* repeated key in pandas 2 and keeps the last row of the key before that.
PnlLogicSaveChanges(i, v, pandas2) ==
    \E base \in { file } :
    \E edited \in { [recalc_pnl(base) EXCEPT ![i].exit_price = v] } :
        /\ i \in DOMAIN base
        /\ base[i].exit_price # v
        /\ IF pandas2 /\ \E j, k \in DOMAIN edited :
                             j # k /\ EditKey(edited[j]) = EditKey(edited[k])
           THEN /\ last' = [op |-> "edit", ok |-> FALSE, app |-> "pnllogic",
                            error |-> "ValueError"]
                /\ UNCHANGED file
           ELSE /\ file' = recalc_pnl(
                     [j \in DOMAIN base |->
                        LET hits == { k \in DOMAIN edited :
                                        EditKey(edited[k]) = EditKey(base[j]) }
                        IN  IF hits = {} THEN base[j]
                            ELSE edited[CHOOSE k \in hits :
                                           \A m \in hits : m <= k]])
                /\ last' = [op |-> "edit", ok |-> TRUE, app |-> "pnllogic",
                            index |-> i, was_open |-> base[i].exit_price = 0,
                            exit |-> v]
        /\ UNCHANGED <<cache, probe>>

----------------------------------------------------------------------------
(* Specification SpecEdit: add_trade and the editors of both programs *)

AllShown ==
    [ start_date |-> 0, end_date |-> 9, symbols |-> {}, strategies |-> {},
      statuses |-> {"Open", "Closed"}, min_pnl |-> -1000000,
      max_pnl |-> 1000000 ]

OpenOnly == [AllShown EXCEPT !.statuses = {"Open"}]

FilterConfigs == { AllShown, OpenOnly }

EditedExits == {0, 150}

DoEditSave ==
    \E fc \in FilterConfigs, i \in 1..MaxTrades, v \in EditedExits :
        EditSave(fc, i, v)

DoPnlLogicSaveChanges ==
    \E i \in DOMAIN file, v \in EditedExits, pandas2 \in BOOLEAN :
        PnlLogicSaveChanges(i, v, pandas2)

NextEdit ==
    \/ DoAddTrade
    \/ ExpireCache
    \/ DoEditSave
    \/ DoPnlLogicSaveChanges

SpecEdit == Init /\ [][NextEdit]_vars

----------------------------------------------------------------------------
(* Specification SpecPnl: the two P&L functions on every argument tuple *)

PnlEntries    == {0, 15, 106, 10000}
PnlExits      == {-50, 0, 15, 106, 9000, 11000}
PnlQuantities == {-10, -1, 0, 1, 2, 10}
PnlStrategies == StrategySet \cup {LongFutures}

InitPnl ==
    /\ StoreInit
    /\ probe \in { [fn |-> "pnl", entry |-> e, exit |-> x, quantity |-> q,
                    strategy |-> s, appDone |-> FALSE, app |-> 0,
                    rowDone |-> FALSE, row |-> 0] :
                   e \in PnlEntries, x \in PnlExits,
                   q \in PnlQuantities, s \in PnlStrategies }

\* app.calculate_pnl(entry, exit, quantity, strategy)
CalcApp ==
    /\ probe.fn = "pnl" /\ ~probe.appDone
    /\ probe' = [probe EXCEPT !.appDone = TRUE,
                    !.app = calculate_pnl(probe.entry, probe.exit,
                                          probe.quantity, probe.strategy)]
    /\ UNCHANGED <<file, cache, last>>

\* pnllogic.calculate_pnl_row on the row loaded for the same trade
CalcRow ==
    /\ probe.fn = "pnl" /\ ~probe.rowDone
    /\ probe' = [probe EXCEPT !.rowDone = TRUE,
                    !.row = calculate_pnl_row(
                               PnlLogicRow(probe.entry, probe.exit,
                                           probe.quantity, probe.strategy,
                                           IF probe.exit = 0 THEN "Open"
                                                             ELSE "Closed"))]
    /\ UNCHANGED <<file, cache, last>>

NextPnl == CalcApp \/ CalcRow

SpecPnl == InitPnl /\ [][NextPnl]_vars

----------------------------------------------------------------------------
(* Specification SpecValidate: validate_trade_data on every candidate *)

ValSymbols    == { Missing, <<>>, <<" ">>, <<" ", " ">>, <<"A">>, <<" ", "a">> }
ValStrategies == { Missing, <<>>, LongStock, ShortStock, LongPut, ShortCall,
                   CoveredCall, CashSecuredPut, Other, LongFutures }
ValEntries    == { Absent, Text, Num(-5000), Num(0), Num(15000) }
ValQuantities == { Absent, Text, Num(0), Num(10), Num(-10) }
ValExits      == { Absent, Text, Num(0), Num(16000) }

InitValidate ==
    /\ StoreInit
    /\ probe \in { [fn |-> "validate", done |-> FALSE, result |-> "",
                    td |-> [symbol |-> sy, strategy |-> st, entry_price |-> e,
                            quantity |-> q, exit_price |-> x]] :
                   sy \in ValSymbols, st \in ValStrategies, e \in ValEntries,
                   q \in ValQuantities, x \in ValExits }

Validate ==
    /\ probe.fn = "validate" /\ ~probe.done
    /\ probe' = [probe EXCEPT !.done = TRUE,
                              !.result = validate_trade_data(probe.td)]
    /\ UNCHANGED <<file, cache, last>>

NextValidate == Validate

SpecValidate == InitValidate /\ [][NextValidate]_vars

----------------------------------------------------------------------------
(* Specification SpecParse: parse_tastytrade_row on every row *)

ParseSymbols ==
    { EmptyCell, <<>>, <<" ">>, <<"b">>, <<" ", "b", " ">>, <<"/", "b">> }

\* the tokens of str(Price): none for a blank cell, "nan" for an empty
\* one, "cr" alone, "1.06 cr", ".", "1.2.3", "15"
ParsePrices ==
    { <<>>, <<Str(EmptyCell)>>, << <<"c", "r">> >>, Credit106,
      << <<".">> >>, << <<"1", ".", "2", ".", "3">> >>, << <<"1", "5">> >> }

\* an empty cell, a blank one, bare quantities, stock rows, the four action
\* tags on a put and on a call, a put without a tag
ParseDescriptions ==
    { EmptyCell, <<>>, <<"2">>, <<"-1">>, <<"Stock">>, <<"-2", "Equity">>,
      <<"-1", "15", "Put", "STO">>, <<"2", "Put", "BTO">>,
      <<"1", "Put", "BTC">>, <<"-1", "Put", "STC">>,
      <<"-1", "Call", "STO">>, <<"1", "Call", "BTO">>,
      <<"1", "Call", "BTC">>, <<"-1", "Call", "STC">>,
      <<"1", "Put">> }

InitParse ==
    /\ StoreInit
    /\ probe \in { [fn |-> "parse", done |-> FALSE, result |-> NoTrade,
                    row |-> BrokerRow(sy, pr, de)] :
                   sy \in ParseSymbols, pr \in ParsePrices,
                   de \in ParseDescriptions }

\* parse_tastytrade_row(row)
ParseRow ==
    /\ probe.fn = "parse" /\ ~probe.done
    /\ \E today \in Dates :
           probe' = [probe EXCEPT !.done = TRUE,
                        !.result = parse_tastytrade_row(probe.row, today)]
    /\ UNCHANGED <<file, cache, last>>

NextParse == ParseRow

SpecParse == InitParse /\ [][NextParse]_vars

----------------------------------------------------------------------------
(* Specification SpecUpload: the import dialog of display_import_section *)

\* rows of one key: the entry price written 1.00, written 1, and a row
\* that fails validation
UploadRows ==
    { GenericRow(Num(1), LongPut, Num(100), Num(150)),
      GenericRow(Num(1), LongPut, Whole(100), Num(150)),
      GenericRow(Text,   LongFutures, Num(100), Num(150)) }

UploadBrokerRows ==
    { BrokerRow(<<"b">>, Credit106, <<"-1", "15", "Put", "STO">>) }

\* the files the uploader can hold, each with the first half of its import
Uploads ==
    { [path |-> "generic", outcome |-> GenericOutcome(TRUE, rows, TRUE)] :
        rows \in SeqsUpTo(UploadRows, MaxRows) \ { <<>> } }
    \cup
    { [path |-> "broker", outcome |-> BrokerOutcome(TRUE, rows, today)] :
        rows \in SeqsUpTo(UploadBrokerRows, MaxRows) \ { <<>> },
        today \in Dates }

\* st.file_uploader: the user picks a file, which the widget then holds
UploadFile ==
    \E u \in Uploads :
        /\ probe' = [fn |-> "upload", path |-> u.path, outcome |-> u.outcome,
                     runs |-> 0, saved |-> <<>>]
        /\ UNCHANGED <<file, cache, last>>

\* the Import Trades button: import_trades on the file the uploader holds.
\* runs counts the successful imports with skip_duplicates made of that
\* file one after the other (2 stands for two or more); saved is the
\* collection persisted when the button was clicked
ClickImport ==
    \E skip_duplicates \in BOOLEAN :
        /\ probe.fn = "upload"
        /\ RunImport(probe.outcome, skip_duplicates, probe.path)
        /\ probe' = [probe EXCEPT
                        !.runs = IF probe.outcome.ok /\ skip_duplicates
                                 THEN (IF @ = 0 THEN 1 ELSE 2) ELSE 0,
                        !.saved = file]

NextUpload ==
    \/ UploadFile
    \/ ClickImport
    \/ ExpireCache

SpecUpload == Init /\ [][NextUpload]_vars

----------------------------------------------------------------------------
(* Specification SpecMult: the multiplier of pnllogic's P&L on every row *)

\* the row recalc_pnl hands to calculate_pnl_row for a trade whose
\* contract_multiplier cell is cm.  A row that load_trades read has an
\* empty cell filled by the instrument type; a row of the edited table
\* (edited) carries the cell as the editor holds it.
MultRow(entry, exit, quantity, strategy, cm, edited) ==
    [ PnlLogicRow(entry, exit, quantity, strategy, "Closed")
      EXCEPT !.contract_multiplier = IF edited \/ IsNum(cm) THEN cm ELSE @ ]

MultStrategies == { LongStock, ShortStock, LongCall, CashSecuredPut,
                    CoveredCall }
MultCells      == { NaN, Num(0), Num(1), Num(10), Num(100) }
MultQuantities == { 1, -2 }

InitMult ==
    /\ StoreInit
    /\ probe \in { [fn |-> "mult", strategy |-> s, cm |-> c, quantity |-> q,
                    entry |-> 100, exit |-> 150, edited |-> e,
                    done |-> FALSE, mult |-> 0, pnl |-> 0] :
                   s \in MultStrategies, c \in MultCells,
                   q \in MultQuantities, e \in BOOLEAN }

\* recalc_pnl on the row: _multiplier and calculate_pnl_row
CalcMult ==
    /\ probe.fn = "mult" /\ ~probe.done
    /\ \E row \in { MultRow(probe.entry, probe.exit, probe.quantity,
                              probe.strategy, probe.cm, probe.edited) } :
           probe' = [probe EXCEPT !.done = TRUE,
                                  !.mult = _multiplier(row),
                                  !.pnl = calculate_pnl_row(row)]
    /\ UNCHANGED <<file, cache, last>>

NextMult == CalcMult

SpecMult == InitMult /\ [][NextMult]_vars

----------------------------------------------------------------------------
(* app.py: get_summary_stats *)

RECURSIVE SumPnl(_)
\* df['pnl'].sum()
SumPnl(df) == IF df = <<>> THEN 0 ELSE Head(df).pnl + SumPnl(Tail(df))

\* a quotient a / b that is not carried out: <<a, b>>
Ratio(a, b) == <<a, b>>

NoStats(n) ==
    [ total_pnl |-> 0, win_rate |-> Ratio(0, 1), total_trades |-> n,
      avg_trade |-> Ratio(0, 1) ]

\* get_summary_stats taking every trade, open ones included
get_summary_stats_all(df) ==
    IF df = <<>> THEN NoStats(0)
    ELSE [ total_pnl    |-> SumPnl(df),
           win_rate     |-> Ratio(Len(SelectSeq(df, LAMBDA t : t.pnl > 0)),
                                  Len(df)),
           total_trades |-> Len(df),
           avg_trade    |-> Ratio(SumPnl(df), Len(df)) ]

get_summary_stats(df) ==
    LET closed_trades == SelectSeq(df, LAMBDA t : t.status = "Closed")
    IN  IF df = <<>> THEN NoStats(0)
        ELSE IF closed_trades = <<>> THEN NoStats(Len(df))
        ELSE [ total_pnl    |-> SumPnl(closed_trades),
               win_rate     |-> Ratio(Len(SelectSeq(closed_trades,
                                                    LAMBDA t : t.pnl > 0)),
                                      Len(closed_trades)),
               total_trades |-> Len(df),
               avg_trade    |-> Ratio(SumPnl(closed_trades),
                                      Len(closed_trades)) ]

----------------------------------------------------------------------------
(* Specification SpecStats: get_summary_stats on every collection *)

MaxStatTrades == 3      \* a summarized collection has at most this many trades

StatTrade(status, pnl) ==
    Trade(1, <<"A">>, LongStock, 100, IF status = "Open" THEN 0 ELSE 150, 1,
          pnl, <<>>, status)

\* winners, losers and break-even trades, closed and open (an open trade
\* can carry a pnl that is not 0)
StatTrades ==
    { StatTrade(st, pnl) : st \in {"Open", "Closed"}, pnl \in {-100, 0, 250} }

InitStats ==
    /\ StoreInit
    /\ probe \in { [fn |-> "stats", df |-> df, done |-> FALSE,
                    stats |-> NoStats(0)] :
                   df \in SeqsUpTo(StatTrades, MaxStatTrades) }

\* get_summary_stats(df)
Summarize ==
    /\ probe.fn = "stats" /\ ~probe.done
    /\ probe' = [probe EXCEPT !.done = TRUE,
                              !.stats = get_summary_stats(probe.df)]
    /\ UNCHANGED <<file, cache, last>>

NextStats == Summarize

SpecStats == InitStats /\ [][NextStats]_vars

----------------------------------------------------------------------------
(* Claims on calculate_pnl *)

PnlDone == probe.fn = "pnl" /\ probe.appDone

\* C1: for Long Call and Long Put with exit_price # 0, calculate_pnl equals
\* (exit - entry) * |quantity| * 100 for every entry, exit and nonzero
\* quantity (entry 0.15, exit 1.06, quantity 1, Long Put gives +91).
C1_LongOptionPnl ==
    (PnlDone /\ probe.strategy \in BuyingOptions
             /\ probe.exit # 0 /\ probe.quantity # 0)
        => probe.app = (probe.exit - probe.entry) * Abs(probe.quantity) * 100

\* C2: for Short Call, Short Put, Cash Secured Put and Covered Call with
\* exit_price # 0, calculate_pnl equals (entry - exit) * |quantity| * 100
\* for every entry, exit and nonzero quantity of either sign.
C2_SellingOptionPnl ==
    (PnlDone /\ probe.strategy \in SellingOptions
             /\ probe.exit # 0 /\ probe.quantity # 0)
        => probe.app = (probe.entry - probe.exit) * Abs(probe.quantity) * 100

\* the specification's scenario: entry 1.06, exit 0.15, quantity -1,
\* Cash Secured Put, P&L +91.00
C2_Witness ==
    /\ PnlDone /\ probe.strategy = CashSecuredPut
    /\ probe.entry = 106 /\ probe.exit = 15 /\ probe.quantity = -1
    /\ probe.app = 9100

\* C3: calculate_pnl(entry, 0, quantity, strategy) = 0 for every entry
\* price, quantity and strategy label.
C3_OpenTradePnlZero ==
    (PnlDone /\ probe.exit = 0) => probe.app = 0

C3_Witness ==
    /\ PnlDone /\ probe.exit = 0 /\ probe.entry = 10000
    /\ probe.quantity = -10 /\ probe.strategy = CashSecuredPut
    /\ probe.app = 0

\* C4: for Long Stock, Short Stock and Other with exit_price # 0,
\* calculate_pnl equals (exit - entry) * quantity with the signed quantity:
\* a negative quantity with a falling price is a profit, a positive
\* quantity with a falling price a loss.
C4_StockPnlSigned ==
    (PnlDone /\ probe.strategy \in {LongStock, ShortStock, Other}
             /\ probe.exit # 0)
        => /\ probe.app = (probe.exit - probe.entry) * probe.quantity
           /\ (probe.quantity < 0 /\ probe.exit < probe.entry => probe.app > 0)
           /\ (probe.quantity > 0 /\ probe.exit < probe.entry => probe.app < 0)

\* entry 100, exit 90, quantity -10 gives +100
C4_Witness ==
    /\ PnlDone /\ probe.strategy = ShortStock
    /\ probe.entry = 10000 /\ probe.exit = 9000 /\ probe.quantity = -10
    /\ probe.app = 10000

\* C5: app.calculate_pnl and pnllogic.calculate_pnl_row return the same
\* value for every closed option trade: every option strategy, every entry,
\* every exit > 0 and every nonzero quantity.
C5_BranchEqualsSigned ==
    (PnlDone /\ probe.rowDone /\ probe.strategy \in PnlOptionList
             /\ probe.exit > 0 /\ probe.quantity # 0)
        => probe.app = probe.row

\* the multiplier the specification gives a trade: the contract_multiplier
\* when present and nonzero, else 100 for an option strategy and 1 for stock
SpecMultiplier(strategy, cm) ==
    IF IsNum(cm) /\ cm.v # 0 THEN cm.v
    ELSE IF _is_option(strategy) THEN 100 ELSE 1

\* C24: the multiplier pnllogic's P&L computation uses is the trade's
\* contract_multiplier when that field is present and nonzero, and 100 for
\* an option strategy, 1 for stock, when it is absent or zero: the P&L of
\* a closed trade is direction * (exit - entry) * that multiplier *
\* |quantity|.
C24_MultiplierOverride ==
    (probe.fn = "mult" /\ probe.done)
        => probe.pnl = _direction_from_strategy(probe.strategy)
                         * (probe.exit - probe.entry)
                         * SpecMultiplier(probe.strategy, probe.cm)
                         * Abs(probe.quantity)

----------------------------------------------------------------------------
(* Claims on get_summary_stats *)

\* the positions of the trades of df that are Closed
ClosedAt(df) == { i \in DOMAIN df : df[i].status = "Closed" }

RECURSIVE PnlOver(_, _)
\* the sum of the pnl of the trades of df at the positions idx
PnlOver(df, idx) ==
    IF idx = {} THEN 0
    ELSE LET i == CHOOSE k \in idx : TRUE
         IN  df[i].pnl + PnlOver(df, idx \ {i})

\* the quotient r equals a / b
RatioIs(r, a, b) == r[2] > 0 /\ r[1] * b = a * r[2]

\* C26: get_summary_stats takes total_pnl, win_rate and avg_trade from the
\* trades with status Closed only, and total_trades counts every trade;
\* with no closed trade total_pnl, win_rate and avg_trade are 0; always
\* 0 <= win_rate <= 1.
C26_StatsOverClosed ==
    (probe.fn = "stats" /\ probe.done) =>
        LET df     == probe.df
            stats  == probe.stats
            closed == ClosedAt(df)
            n      == Cardinality(closed)
            wins   == Cardinality({ i \in closed : df[i].pnl > 0 })
        IN  /\ stats.total_trades = Len(df)
            /\ IF n = 0
               THEN /\ stats.total_pnl = 0
                    /\ RatioIs(stats.win_rate, 0, 1)
                    /\ RatioIs(stats.avg_trade, 0, 1)
               ELSE /\ stats.total_pnl = PnlOver(df, closed)
                    /\ RatioIs(stats.win_rate, wins, n)
                    /\ RatioIs(stats.avg_trade, PnlOver(df, closed), n)
            /\ stats.win_rate[1] >= 0
            /\ stats.win_rate[1] <= stats.win_rate[2]

\* a closed winner, a closed loser and an open trade carrying a pnl:
\* total_pnl 150, win_rate 1/2, avg_trade 75, total_trades 3
C26_Witness ==
    /\ probe.fn = "stats" /\ probe.done
    /\ probe.df = << StatTrade("Closed", 250), StatTrade("Open", 250),
                     StatTrade("Closed", -100) >>
    /\ probe.stats.total_pnl = 150
    /\ probe.stats.win_rate = <<1, 2>>
    /\ probe.stats.avg_trade = <<150, 2>>
    /\ probe.stats.total_trades = 3

----------------------------------------------------------------------------
(* Claims on validate_trade_data *)

\* C10: validate_trade_data rejects every candidate whose symbol is missing
\* or empty after trimming, with the symbol-required error.
C10_BlankSymbolRejected ==
    (probe.fn = "validate" /\ probe.done
        /\ (probe.td.symbol = Missing \/ Strip(probe.td.symbol) = <<>>))
        => probe.result = "Symbol is required"

\* the checks of validate_trade_data one by one, in the order of the
\* specification: 1 symbol, 2 strategy, 3 entry_price, 4 quantity,
\* 5 exit_price, 6 direction consistency (a quantity that is no number has
\* no sign to compare)
CheckFails(k, td) ==
    CASE k = 1 -> Falsy(td.symbol)
      [] k = 2 -> Falsy(td.strategy)
      [] k = 3 -> ~IsNum(td.entry_price) \/ td.entry_price.v <= 0
      [] k = 4 -> ~IsNum(td.quantity) \/ td.quantity.v = 0
      [] k = 5 -> td.exit_price.t = "text"
      [] k = 6 -> /\ IsNum(td.quantity)
                  /\ \/ td.quantity.v > 0 /\ Contains(td.strategy, "Short")
                     \/ td.quantity.v < 0 /\ Contains(td.strategy, "Long")

\* the check a TradeValidationError message belongs to (0 for "ok")
CheckOf(result) ==
    CASE result = "Symbol is required" -> 1
      [] result = "Strategy is required" -> 2
      [] result \in {"Entry price must be a valid number",
                     "Entry price must be positive"} -> 3
      [] result \in {"Quantity must be a valid integer",
                     "Quantity cannot be zero"} -> 4
      [] result = "Exit price must be a valid number" -> 5
      [] result \in {"Short strategies require negative quantity",
                     "Long strategies require positive quantity"} -> 6
      [] OTHER -> 0

ValDone == probe.fn = "validate" /\ probe.done

\* C11: validate_trade_data rejects every candidate whose strategy is
\* missing or is not one of the nine labels of STRATEGY_OPTIONS.
C11_StrategyEnumRejected ==
    (ValDone /\ probe.td.strategy \notin StrategySet)
        => probe.result # "ok"

\* C12: a candidate that passes the checks on symbol, strategy, entry
\* price, quantity and exit price is rejected when its label contains
\* "Short" and quantity > 0, or contains "Long" and quantity < 0; a Cash
\* Secured Put or Covered Call candidate passing those checks is accepted
\* whatever the sign of its quantity.
C12_DirectionConsistency ==
    (ValDone /\ \A k \in 1..5 : ~CheckFails(k, probe.td))
        => /\ (Contains(probe.td.strategy, "Short") /\ probe.td.quantity.v > 0)
                  => probe.result = "Short strategies require negative quantity"
           /\ (Contains(probe.td.strategy, "Long") /\ probe.td.quantity.v < 0)
                  => probe.result = "Long strategies require positive quantity"
           /\ probe.td.strategy \in {CashSecuredPut, CoveredCall}
                  => probe.result = "ok"

\* a Long Put with a negative quantity is rejected by the direction rule
C12_Witness ==
    /\ ValDone /\ probe.td.strategy = LongPut /\ probe.td.quantity = Num(-10)
    /\ probe.td.symbol = <<"A">> /\ probe.td.entry_price = Num(15000)
    /\ probe.td.exit_price = Num(16000)
    /\ probe.result = "Long strategies require positive quantity"

\* C13: the checks run in the order symbol, strategy, entry_price,
\* quantity, exit_price, direction consistency and stop at the first
\* failure: the reported reason is that of the earliest violated check.
C13_FirstFailureWins ==
    ValDone =>
        LET failing == { k \in 1..6 : CheckFails(k, probe.td) }
        IN  IF failing = {} THEN probe.result = "ok"
            ELSE CheckOf(probe.result)
                     = CHOOSE k \in failing : \A m \in failing : k <= m

\* a candidate violating the entry price, quantity and exit price checks
\* is reported for its entry price
C13_Witness ==
    /\ ValDone /\ probe.td.symbol = <<"A">> /\ probe.td.strategy = LongStock
    /\ probe.td.entry_price = Num(-5000) /\ probe.td.quantity = Num(0)
    /\ probe.td.exit_price = Text
    /\ probe.result = "Entry price must be positive"

----------------------------------------------------------------------------
(* Claims on the store *)

DerivedPnl(t) ==
    calculate_pnl(t.entry_price, t.exit_price, t.quantity, t.strategy)

\* C6: after any sequence of successful add_trade and import_trades
\* operations, every persisted trade has status Closed iff its exit_price
\* is not 0, and status Open iff its exit_price is 0.
C6_StatusIffExit ==
    \A i \in DOMAIN file :
        /\ file[i].status = "Closed" <=> file[i].exit_price # 0
        /\ file[i].status = "Open" <=> file[i].exit_price = 0

\* C7: after any sequence of successful add_trade and import_trades
\* operations, the pnl of every trade they wrote is calculate_pnl of that
\* trade's entry_price, exit_price, quantity and strategy; a pnl supplied by
\* the caller or present in the file (777 in every input here, a value
\* calculate_pnl does not yield on them) is never stored as is.
C7_PnlDerived ==
    \A i \in DOMAIN file :
        file[i].pnl = DerivedPnl(file[i])

\* an imported closed Long Put followed by an added closed Long Stock, the
\* caller having supplied a pnl of its own
C7_Witness ==
    /\ last.op = "add" /\ last.ok /\ last.pnl_in = 777
    /\ Len(file) = 2
    /\ file[1].strategy = LongPut /\ file[1].pnl = -10000
    /\ file[2] = last.trade /\ file[2].pnl = 50

\* C20: parse_tastytrade_row never raises: for every row it returns a
\* candidate or null, and it returns null whenever the symbol is empty
\* after trimming (an empty cell included) or the first
\* whitespace-delimited token of the price field contains no digit.
C20_ParserTotal ==
    (probe.fn = "parse" /\ probe.done)
        => /\ probe.result = NoTrade \/ ~probe.result.none
           /\ (probe.row.Symbol = EmptyCell \/ Strip(probe.row.Symbol) = <<>>)
                  => probe.result = NoTrade
           /\ (probe.row.Price = <<>>
                \/ FilterChars(probe.row.Price[1], Digits) = <<>>)
                  => probe.result = NoTrade

\* a row parse_tastytrade_row returned a candidate for
Parsed == probe.fn = "parse" /\ probe.done /\ ~probe.result.none

\* the description of the row as the parser reads it
ParsedDescription == StrWords(probe.row.Description)

SellingTag(d) == Contains(d, "STO") \/ Contains(d, "STC")
BuyingTag(d)  == Contains(d, "BTO") \/ Contains(d, "BTC")

\* C22: for a candidate whose description names one option type and action
\* tags of one kind, "Put" gives Cash Secured Put with a selling tag (STO,
\* STC) and Long Put with a buying tag (BTO, BTC); "Call" gives Covered
\* Call with a selling tag and Long Call with a buying tag.
C22_OptionStrategyLookup ==
    Parsed =>
        LET d == ParsedDescription
            s == probe.result.trade.strategy
            put  == Contains(d, "Put") /\ ~Contains(d, "Call")
            call == Contains(d, "Call") /\ ~Contains(d, "Put")
            sell == SellingTag(d) /\ ~BuyingTag(d)
            buy  == BuyingTag(d) /\ ~SellingTag(d)
        IN  /\ (put /\ sell) => s = CashSecuredPut
            /\ (put /\ buy) => s = LongPut
            /\ (call /\ sell) => s = CoveredCall
            /\ (call /\ buy) => s = LongCall

\* a sell-to-close row on a call is a Covered Call candidate
C22_Witness ==
    /\ Parsed /\ probe.row.Description = <<"-1", "Call", "STC">>
    /\ probe.row.Symbol = <<"b">>
    /\ probe.result.trade.strategy = CoveredCall

\* C23: for every row whose description contains neither "Put" nor "Call"
\* the candidate is Long Stock when the extracted quantity is positive and
\* Short Stock when it is negative, whatever the symbol; the strategy of
\* every candidate the parser returns is one of STRATEGY_OPTIONS.
C23_StockFallback ==
    Parsed =>
        LET d == ParsedDescription
            t == probe.result.trade
        IN  /\ (~Contains(d, "Put") /\ ~Contains(d, "Call"))
                  => /\ t.quantity > 0 => t.strategy = LongStock
                     /\ t.quantity < 0 => t.strategy = ShortStock
            /\ t.strategy \in StrategySet

\* a step in which an import succeeded: it leaves the cache entry alive
ImportDone ==
    /\ last'.op = "import" /\ last'.ok /\ cache'.valid
    /\ vars' # vars

ImportRead == last.op = "import" /\ last.error # "Error reading CSV file"

\* C14: in a readable import file, a row that fails validation is excluded
\* while the batch continues: when some rows of the file pass validation
\* and others do not, the import succeeds and every passing row is merged
\* (or left out as a duplicate), in the generic and in the broker path.
C14_FailingRowSkipped ==
    (ImportRead /\ last.n_valid > 0 /\ last.n_valid < last.n_rows)
        => /\ last.ok
           /\ last.imported_count + last.duplicate_count = last.n_valid

\* the identity of a trade for duplicate detection
TradeKey(t) == <<t.date, t.symbol, t.entry_price>>

\* the candidates an import step merged: the tail of the collection saved
Merged(df, result) ==
    SubSeq(df, result.total_count - result.imported_count + 1,
           result.total_count)

\* C15: with skip_duplicates, every incoming candidate whose key (date,
\* symbol, entry_price) equals the key of a trade of the existing
\* collection is left out of the merge and counted in duplicate_count, and
\* no candidate whose key is absent from the collection is dropped; without
\* skip_duplicates nothing is dropped and duplicate_count = 0.
C15_DuplicatesSkipped ==
    [][ImportDone =>
        LET keys    == { TradeKey(file[i]) : i \in DOMAIN file }
            merged  == Merged(file', last')
            dropped == last'.dropped
        IN  /\ last'.duplicate_count = Len(dropped)
            /\ IF last'.skip_duplicates
               THEN /\ \A i \in DOMAIN merged : TradeKey(merged[i]) \notin keys
                    /\ \A i \in DOMAIN dropped : TradeKey(dropped[i]) \in keys
               ELSE dropped = <<>>
    ]_vars

\* C16: a successful import leaves every existing trade unchanged and in
\* its position: the collection persisted after it is the collection
\* persisted before it followed by the imported trades, and total_count =
\* number of existing trades + imported_count.
C16_ImportAppends ==
    [][ImportDone =>
        /\ Values(file') = Values(file) \o Values(Merged(file', last'))
        /\ last'.total_count = Len(file) + last'.imported_count
    ]_vars

\* C17: every row of a readable imported file is accounted for in the
\* result: merged (imported_count), counted in duplicate_count, or named
\* with a reason; no row, a broker row the parser could not decode
\* included, is dropped without being reported.
C17_RowsAccounted ==
    ImportRead
        => last.imported_count + last.duplicate_count + last.reported
               = last.n_rows

\* C18: after any sequence of add_trade and import_trades operations the
\* symbol of every persisted trade is upper-case with no leading or
\* trailing whitespace.
C18_SymbolNormalized ==
    \A i \in DOMAIN file : file[i].symbol = Strip(Upper(file[i].symbol))

\* C19: with skip_duplicates, an incoming row whose date and entry_price
\* equal those of an existing trade and whose symbol differs from that
\* trade's stored symbol only in letter case or surrounding whitespace is
\* detected as a duplicate, that is, it is not merged.
C19_KeyStableUnderCase ==
    [][(ImportDone /\ last'.skip_duplicates) =>
        LET merged == Merged(file', last')
        IN  \A i \in DOMAIN merged : \A j \in DOMAIN file :
                ~ /\ file[j].date = merged[i].date
                  /\ file[j].entry_price = merged[i].entry_price
                  /\ file[j].symbol # merged[i].symbol
                  /\ Strip(Upper(file[j].symbol)) = merged[i].symbol
    ]_vars

\* no two trades of the collection share a key (date, symbol, entry_price)
UniqueKeys(df) ==
    \A i, j \in DOMAIN df : i # j => TradeKey(df[i]) # TradeKey(df[j])

\* C28: a successful import with skip_duplicates into a persisted
\* collection in which no two trades share a key (the empty collection
\* included) persists a collection in which no two trades share a key,
\* even when the imported file holds the same key on several rows; hence
\* so does every sequence of such imports.
C28_ImportKeepsKeysUnique ==
    [][(ImportDone /\ last'.skip_duplicates /\ UniqueKeys(file))
          => UniqueKeys(file')
    ]_vars

\* C29: import with skip_duplicates is idempotent: importing the file the
\* uploader holds a second time right after a successful import of it
\* returns imported_count = 0 and duplicate_count = the number of valid
\* rows of the file, and leaves the persisted collection as the first
\* import left it.
C29_ImportIdempotent ==
    (probe.fn = "upload" /\ probe.runs = 2)
        => /\ last.imported_count = 0
           /\ last.duplicate_count = probe.outcome.n_valid
           /\ Values(file) = Values(probe.saved)

\* the failures of the claim: add_trade raising TradeValidationError,
\* import_trades returning success = false for an unreadable file, for
\* validation errors or for a failed normalization
FailedOp(result) ==
    /\ ~result.ok
    /\ \/ result.op = "add" /\ result.error # "KeyError"
       \/ /\ result.op = "import"
          /\ result.error \in { "Error reading CSV file",
                                "Validation errors found",
                                "Error processing data" }

\* C30: a failed operation never changes the persisted collection: a step
\* that ends in such a failure leaves the file exactly as it was.
C30_FailureKeepsStore ==
    [][FailedOp(last') => file' = file]_vars

\* an import failed in normalization on a store that holds trades the
\* cache entry does not
C30_Witness ==
    /\ FailedOp(last) /\ last.op = "import"
    /\ last.error = "Error processing data"
    /\ file # <<>> /\ cache.valid /\ cache.value # file

\* C8: when an edit of the trade table sets the exit_price of an open trade
\* to a nonzero value and is saved, the persisted trade has its pnl
\* recomputed from the edited fields and its status set to Closed.
C8_EditClosesTrade ==
    (last.op = "edit" /\ last.ok /\ last.was_open /\ last.exit # 0)
        => /\ file[last.index].exit_price = last.exit
           /\ file[last.index].status = "Closed"
           /\ file[last.index].pnl =
                  IF last.app = "app" THEN DerivedPnl(file[last.index])
                                      ELSE RowPnl(file[last.index])

\* C25: recalc_pnl of pnllogic assigns pnl = 0 to every trade whose
\* exit_price is 0, the open-trade sentinel app.py writes to the shared
\* file: after Save Changes has recalculated and saved the collection,
\* every persisted trade with exit_price 0 has pnl 0.
C25_RecalcOpenPnlZero ==
    (last.op = "edit" /\ last.ok /\ last.app = "pnllogic")
        => \A i \in DOMAIN file :
               file[i].exit_price = 0 => file[i].pnl = 0

\* a step in which the trade-history editor of app.py saved an edit
EditSaved ==
    /\ last'.op = "edit" /\ last'.ok /\ last'.app = "app"
    /\ file' # file

\* C27: saving an edit made in the trade-history table while the filters
\* hide some trades keeps the hidden trades: every trade that was persisted
\* before the save and was not in the filtered table is persisted,
\* unchanged, after it.
C27_HiddenTradesKept ==
    [][EditSaved =>
        LET shown == filter_trades(load_trades, last'.filter_config)
        IN  \A i \in DOMAIN file :
                (\A k \in DOMAIN shown : shown[k] # file[i])
                    => \E j \in DOMAIN file' : file'[j] = file[i]
    ]_vars

\* C9: after add_trade(t) succeeds, the next load_trades returns the
\* previously persisted collection followed by t, so that no earlier added
\* trade is lost or overwritten by a later add_trade.
C9_AddAppends ==
    (last.op = "add" /\ last.ok)
        => /\ Values(file) = Values(Append(last.before, last.trade))
           /\ Values(load_trades) = Values(file)

====
